---- MODULE Spec2Model ----
(***************************************************************************)
(* Model of the clip-concatenation export pipeline (generatePublish.js):   *)
(* the process runner runCmd, the stream prober hasAudioStream, the        *)
(* timeline normalizer normTimeline, the filter graph builder              *)
(* buildFilterForConcat and the POST /api/generate/publish handler.        *)
(*                                                                         *)
(* Text (stdout, stderr, error messages) is a sequence of atoms; the atom  *)
(* "audio" is the literal word audio, " " is a whitespace character and    *)
(* any other atom is non-whitespace text.  String concatenation is \o.     *)
(* The handler is cut at its awaits: one action per synchronous segment.   *)
(***************************************************************************)
EXTENDS Integers, Sequences, FiniteSets, TLC

VARIABLES
    req,          \* req.body of the export request
    bucket,       \* process.env.S3_UPLOADS_BUCKET is set
    videos,       \* rows of the videos table: [id, filename]
    objects,      \* keys stored in the uploads bucket
    pc,           \* the await the handler is suspended at
    scratch,      \* tmpRoot on disk: "none", "exists", "removed"
    clips,        \* const clips = normTimeline(timeline)
    byId,         \* rows returned by the SELECT, keyed by id
    idx,          \* loop variable i of the download loop (1-based)
    inputPaths,   \* const inputPaths
    probes,       \* per input: "idle", "running", "true", "false"
    settleOrder,  \* input indexes in the order their probes settled
    audioFlags,   \* const audioFlags
    filter,       \* const filter
    args,         \* the -i inputs handed to ffmpeg
    response,     \* the response sent through res
    log,          \* the handler's effects, in program order
    injected,     \* the steps at which the environment failed
    rc,           \* one runCmd call: its closure variables and promise
    tmpDirs,      \* the directories now existing under os.tmpdir()
    jobs          \* several requests in flight: each one's tmpRoot and progress

hvars == <<req, bucket, videos, objects, pc, scratch, clips, byId, idx,
           inputPaths, probes, settleOrder, audioFlags, filter, args,
           response, log, injected>>
vars == <<req, bucket, videos, objects, pc, scratch, clips, byId, idx,
          inputPaths, probes, settleOrder, audioFlags, filter, args,
          response, log, injected, rc, tmpDirs, jobs>>

(***************************************************************************)
(* Bounds of the model.                                                    *)
(***************************************************************************)
\* longest raw timeline of a request
MaxClips == 2
\* most stdout/stderr data events of one child process
MaxData == 2

(***************************************************************************)
(* Text.                                                                   *)
(***************************************************************************)
Atoms == {"audio", " ", "x"}

\* String.prototype.trim: strip leading and trailing whitespace
RECURSIVE TrimLeft(_)
TrimLeft(t) == IF t # <<>> /\ Head(t) = " " THEN TrimLeft(Tail(t)) ELSE t

RECURSIVE TrimRight(_)
TrimRight(t) ==
    IF t # <<>> /\ t[Len(t)] = " " THEN TrimRight(SubSeq(t, 1, Len(t) - 1)) ELSE t

Trim(t) == TrimRight(TrimLeft(t))

(***************************************************************************)
(* runCmd: the child process is a sequence of events delivered to the      *)
(* listeners runCmd registers.                                             *)
(***************************************************************************)
StdoutEv(d) == [type |-> "stdout", d |-> d, code |-> 0]
StderrEv(d) == [type |-> "stderr", d |-> d, code |-> 0]
ErrorEv == [type |-> "error", d |-> <<"spawn ENOENT">>, code |-> 0]
CloseEv(code) == [type |-> "close", d |-> <<>>, code |-> code]

\* exit statuses a child may close with; -2 is what a failed launch closes with
ExitCodes == {0, 1}
LaunchFailCode == 0 - 2

\* state of one call after spawn(): out = "", err = "", promise pending
NewCall(cmd) ==
    [cmd |-> cmd, out |-> <<>>, err |-> <<>>, promise |-> "pending",
     valueOut |-> <<>>, valueErr |-> <<>>, message |-> <<>>,
     spawns |-> 1, events |-> <<>>]

\* resolve / reject of a promise: only the first call has an effect
Resolve(c) ==
    IF c.promise # "pending" THEN c
    ELSE [c EXCEPT !.promise = "resolved", !.valueOut = c.out, !.valueErr = c.err]

\* variant: a later reject replaces the outcome
Reject_Again(c, msg) == [c EXCEPT !.promise = "rejected", !.message = msg]

Reject(c, msg) ==
    IF c.promise # "pending" THEN c
    ELSE [c EXCEPT !.promise = "rejected", !.message = msg]

\* p.stdout.on("data", (d) => (out += d.toString()))
OnStdoutData(c, d) == [c EXCEPT !.out = @ \o d]

\* p.stderr.on("data", (d) => (err += d.toString()))
OnStderrData(c, d) == [c EXCEPT !.err = @ \o d]

\* p.on("error", reject)
OnError(c, e) == Reject(c, e)

\* `${cmd} exited with code ${code}`
ExitMessage(cmd, code) == <<cmd, " exited with code ", ToString(code)>>

\* variant: the exit status is not looked at
OnClose_AnyCode(c, code) == Resolve(c)

\* variant: no fallback message when stderr is empty
OnClose_NoFallback(c, code) == IF code = 0 THEN Resolve(c) ELSE Reject(c, c.err)

\* p.on("close", (code) => { if (code === 0) resolve({out, err}); else reject(...) })
OnClose(c, code) ==
    IF code = 0 THEN Resolve(c)
    ELSE Reject(c, IF c.err # <<>> THEN c.err ELSE ExitMessage(c.cmd, code))

Dispatch(c, ev) ==
    CASE ev.type = "stdout" -> OnStdoutData(c, ev.d)
      [] ev.type = "stderr" -> OnStderrData(c, ev.d)
      [] ev.type = "error"  -> OnError(c, ev.d)
      [] OTHER              -> OnClose(c, ev.code)

RECURSIVE Feed(_, _)
Feed(c, evs) == IF evs = <<>> THEN c ELSE Feed(Dispatch(c, Head(evs)), Tail(evs))

\* runCmd(cmd, args) for a child that behaves as `run`
runCmd(cmd, run) == Feed(NewCall(cmd), run)

\* the behaviours of a child process: data events, then it closes with an exit
\* status, or the launch fails ('error', then 'close' with a negative status)
DataEvents == {StdoutEv(<<a>>) : a \in Atoms} \cup {StderrEv(<<a>>) : a \in Atoms}

RECURSIVE SeqsUpTo(_, _)
SeqsUpTo(S, n) ==
    IF n = 0 THEN {<<>>}
    ELSE LET shorter == SeqsUpTo(S, n - 1)
         IN  shorter \cup {Append(q, x) : q \in shorter, x \in S}

ProcRuns ==
    {d \o <<CloseEv(code)>> : d \in SeqsUpTo(DataEvents, MaxData), code \in ExitCodes}
    \cup {<<ErrorEv, CloseEv(LaunchFailCode)>>}

\* what a child did, read off its events
RECURSIVE TextOf(_, _)
TextOf(evs, type) ==
    IF evs = <<>> THEN <<>>
    ELSE (IF Head(evs).type = type THEN Head(evs).d ELSE <<>>) \o TextOf(Tail(evs), type)

HasEvent(evs, type) == \E i \in 1..Len(evs) : evs[i].type = type
ExitOf(evs) == evs[Len(evs)].code

\* launch failure, non-zero exit, exit 0 with the marker, exit 0 without it
RunKind(run) ==
    IF HasEvent(run, "error") THEN "launch"
    ELSE IF ExitOf(run) # 0 THEN "nonzero"
    ELSE IF Trim(TextOf(run, "stdout")) = <<"audio">> THEN "audio"
    ELSE "badoutput"

(***************************************************************************)
(* hasAudioStream                                                          *)
(***************************************************************************)
\* variant: the output is compared untrimmed
HasAudioOf_NoTrim(call) ==
    IF call.promise = "resolved" THEN call.valueOut = <<"audio">> ELSE FALSE

\* try { const { out } = await runCmd(...); return String(out || "").trim() === "audio" }
\* catch { return false }
HasAudioOf(call) ==
    IF call.promise = "resolved" THEN Trim(call.valueOut) = <<"audio">> ELSE FALSE

hasAudioStream(run) == HasAudioOf(runCmd("ffprobe", run))

(***************************************************************************)
(* normTimeline.  A raw timeline element is null/undefined (isNull) or an  *)
(* object whose fields may be missing (Undef / k = "undef"); a numeric     *)
(* field coerces to a finite number (k = "num"), to NaN or to Infinity.    *)
(***************************************************************************)
Undef == "<undefined>"
Num(v) == [k |-> "num", v |-> v]
NoNum == [k |-> "undef", v |-> 0]
NaN == [k |-> "nan", v |-> 0]
Infinity == [k |-> "inf", v |-> 0]

Elem(videoId, id, start, in, out) ==
    [isNull |-> FALSE, videoId |-> videoId, id |-> id,
     start |-> start, in |-> in, out |-> out]
NullElem ==
    [isNull |-> TRUE, videoId |-> Undef, id |-> Undef,
     start |-> NoNum, in |-> NoNum, out |-> NoNum]

\* String(c.videoId ?? c.id ?? "")
SourceIdOf(c) ==
    IF c.videoId # Undef THEN c.videoId
    ELSE IF c.id # Undef THEN c.id ELSE ""

\* Number(x ?? 0)
NumberOr0(x) == IF x.k = "undef" THEN Num(0) ELSE x

\* Number.isFinite
IsFinite(x) == x.k = "num"

\* the .map callback
MapClip(c) ==
    [videoId |-> SourceIdOf(c), start |-> NumberOr0(c.start),
     in |-> NumberOr0(c.in), out |-> NumberOr0(c.out)]

\* the first .filter callback
KeepFinite(c) ==
    c.videoId # "" /\ IsFinite(c.start) /\ IsFinite(c.in) /\ IsFinite(c.out)

\* variant: the range filter lets a clip of zero length through
KeepRange_AllowEqual(c) == c.out.v >= c.in.v /\ c.start.v >= 0

\* the second .filter callback
KeepRange(c) == c.out.v > c.in.v /\ c.start.v >= 0

\* variant: an unstable sort that puts a clip before the clips of equal start
RECURSIVE InsertByStart_BeforeTies(_, _)
InsertByStart_BeforeTies(sorted, c) ==
    IF sorted = <<>> THEN <<c>>
    ELSE IF c.start.v <= Head(sorted).start.v THEN <<c>> \o sorted
         ELSE <<Head(sorted)>> \o InsertByStart_BeforeTies(Tail(sorted), c)

\* .sort((a, b) => a.start - b.start): stable, ascending by start
RECURSIVE InsertByStart(_, _)
InsertByStart(sorted, c) ==
    IF sorted = <<>> THEN <<c>>
    ELSE IF c.start.v < Head(sorted).start.v THEN <<c>> \o sorted
         ELSE <<Head(sorted)>> \o InsertByStart(Tail(sorted), c)

RECURSIVE SortByStart(_)
SortByStart(q) ==
    IF q = <<>> THEN <<>>
    ELSE InsertByStart(SortByStart(SubSeq(q, 1, Len(q) - 1)), q[Len(q)])

\* the clip object with its (finite) numbers read off
ClipValue(c) ==
    [videoId |-> c.videoId, start |-> c.start.v, in |-> c.in.v, out |-> c.out.v]

\* Array.isArray(raw) ? raw : []
ArrayOf(raw) == IF raw.isArray THEN raw.items ELSE <<>>

\* reading c.videoId of a null or undefined element raises a TypeError
normTimelineThrows(raw) ==
    \E i \in 1..Len(ArrayOf(raw)) : ArrayOf(raw)[i].isNull

normTimeline(raw) ==
    LET arr == ArrayOf(raw)
        mapped == [i \in 1..Len(arr) |-> MapClip(arr[i])]
        kept == SelectSeq(SelectSeq(mapped, KeepFinite), KeepRange)
        sorted == SortByStart(kept)
    IN  [i \in 1..Len(sorted) |-> ClipValue(sorted[i])]

(***************************************************************************)
(* buildFilterForConcat: the graph is its stages, in the order they are    *)
(* joined with ";".  Input indexes and labels are 0-based as in the code.  *)
(***************************************************************************)
Label(k, i) == [k |-> k, i |-> i]

Stage(stage, input, start, duration, label) ==
    [stage |-> stage, input |-> input, start |-> start, duration |-> duration,
     label |-> label, inputs |-> <<>>, n |-> 0, v |-> 0, a |-> 0, outs |-> <<>>]

Max(a, b) == IF a >= b THEN a ELSE b

\* audioFlags?.[i]
FlagAt(flags, i) == i <= Len(flags) /\ flags[i]

\* variant: the silence lasts until the clip's out point, not for its duration
ClipStages_SilenceToOut(c, i, flags) ==
    LET dur == Max(0, c.out - c.in)
    IN  << Stage("trim", i - 1, c.in, dur, Label("v", i - 1)),
           IF FlagAt(flags, i)
           THEN Stage("atrim", i - 1, c.in, dur, Label("a", i - 1))
           ELSE Stage("aevalsrc", 0 - 1, 0, c.out, Label("a", i - 1)) >>

\* variant: the trim starts at the clip's place on the timeline
ClipStages_TrimAtStart(c, i, flags) ==
    LET dur == Max(0, c.out - c.in)
    IN  << Stage("trim", i - 1, c.start + c.in, dur, Label("v", i - 1)),
           IF FlagAt(flags, i)
           THEN Stage("atrim", i - 1, c.start + c.in, dur, Label("a", i - 1))
           ELSE Stage("aevalsrc", 0 - 1, 0, dur, Label("a", i - 1)) >>

\* the two stages pushed for clip i (1-based here, i - 1 in the graph)
ClipStages(c, i, flags) ==
    LET dur == Max(0, c.out - c.in)
    IN  << Stage("trim", i - 1, c.in, dur, Label("v", i - 1)),
           IF FlagAt(flags, i)
           THEN Stage("atrim", i - 1, c.in, dur, Label("a", i - 1))
           ELSE Stage("aevalsrc", 0 - 1, 0, dur, Label("a", i - 1)) >>

RECURSIVE AllClipStages(_, _, _)
AllClipStages(cs, i, flags) ==
    IF i > Len(cs) THEN <<>>
    ELSE ClipStages(cs[i], i, flags) \o AllClipStages(cs, i + 1, flags)

\* variant: all video labels first, then all audio labels
Interleaved_Grouped(n, i) ==
    [k \in 1..(2 * (n - i + 1)) |->
        IF k <= n - i + 1 THEN Label("v", i + k - 2)
        ELSE Label("a", i + k - 2 - (n - i + 1))]

\* inputs.push(`[v${i}]`, `[a${i}]`) for i = 0 .. n - 1, joined
RECURSIVE Interleaved(_, _)
Interleaved(n, i) ==
    IF i > n THEN <<>>
    ELSE <<Label("v", i - 1), Label("a", i - 1)>> \o Interleaved(n, i + 1)

ConcatStage(cs) ==
    [stage |-> "concat", input |-> 0 - 1, start |-> 0, duration |-> 0,
     label |-> Label("out", 0), inputs |-> Interleaved(Len(cs), 1),
     n |-> Len(cs), v |-> 1, a |-> 1,
     outs |-> <<Label("vout", 0), Label("aout", 0)>>]

buildFilterForConcat(cs, flags) ==
    AllClipStages(cs, 1, flags) \o <<ConcatStage(cs)>>

(***************************************************************************)
(* tagsArr: the tag string is a sequence of atoms, each a word, a blank or *)
(* a comma; a tag is the sequence of atoms between two commas.             *)
(***************************************************************************)
\* .slice(0, 30)
TagCap == 30

TagText(text) == [k |-> "str", text |-> text]
NoTags == [k |-> "undef", text |-> <<>>]

\* String(tags || "")
TagString(tags) == IF tags.k = "undef" THEN <<>> ELSE tags.text

\* .toLowerCase(), atom by atom
Lower(a) ==
    CASE a = "Funny"    -> "funny"
      [] a = "CATS"     -> "cats"
      [] a = "Public"   -> "public"
      [] a = "Private"  -> "private"
      [] a = "UNLISTED" -> "unlisted"
      [] OTHER          -> a
LowerText(t) == [i \in 1..Len(t) |-> Lower(t[i])]

\* .split(","): one piece more than there are commas
RECURSIVE SplitComma(_)
SplitComma(t) ==
    IF \A i \in 1..Len(t) : t[i] # "," THEN <<t>>
    ELSE LET p == CHOOSE i \in 1..Len(t) :
                      t[i] = "," /\ \A j \in 1..(i - 1) : t[j] # ","
         IN  <<SubSeq(t, 1, p - 1)>> \o SplitComma(SubSeq(t, p + 1, Len(t)))

\* variant: the entries are trimmed but keep their case
TagEntry_KeepCase(t) == Trim(t)

\* (t) => t.trim().toLowerCase()
TagEntry(t) == LowerText(Trim(t))

\* .filter(Boolean)
NonEmptyEntry(t) == t # <<>>

\* .slice(0, n)
Take(q, n) == SubSeq(q, 1, IF n <= Len(q) THEN n ELSE Len(q))

\* Array.from(new Set(q)): the first occurrence of each value, in order
RECURSIVE UniqueInOrder(_)
UniqueInOrder(q) ==
    IF q = <<>> THEN <<>>
    ELSE LET r == UniqueInOrder(SubSeq(q, 1, Len(q) - 1))
         IN  IF \E i \in 1..Len(r) : r[i] = q[Len(q)] THEN r
             ELSE Append(r, q[Len(q)])

\* the entries after .map, .filter(Boolean)
TagEntries(tags) ==
    LET pieces == SplitComma(TagString(tags))
    IN  SelectSeq([i \in 1..Len(pieces) |-> TagEntry(pieces[i])], NonEmptyEntry)

tagsArr(tags) == UniqueInOrder(Take(TagEntries(tags), TagCap))

(***************************************************************************)
(* vis: the visibility of the request is missing, null or a text.          *)
(***************************************************************************)
VisText(text) == [k |-> "str", text |-> text]
NoVis == [k |-> "undef", text |-> <<>>]
NullVis == [k |-> "null", text |-> <<>>]

\* String(visibility), after the default of the destructuring: visibility = "public"
VisString(v) ==
    IF v.k = "undef" THEN <<"public">>
    ELSE IF v.k = "null" THEN <<"null">> ELSE v.text

\* new Set(["public", "private", "unlisted"])
allowedVis == {<<"public">>, <<"private">>, <<"unlisted">>}

\* variant: the match ignores case but the value is stored as it was sent
vis_AsSent(v) ==
    IF LowerText(VisString(v)) \in allowedVis THEN VisString(v) ELSE <<"public">>

\* allowedVis.has(String(visibility).toLowerCase()) ? ... : "public"
vis(v) ==
    IF LowerText(VisString(v)) \in allowedVis THEN LowerText(VisString(v))
    ELSE <<"public">>

(***************************************************************************)
(* The POST /api/generate/publish handler.  Its state is the record Cur;   *)
(* each operator below is one stretch of the handler's code and returns    *)
(* the state it leaves.                                                    *)
(***************************************************************************)
Cur ==
    [req |-> req, bucket |-> bucket, videos |-> videos, objects |-> objects,
     pc |-> pc, scratch |-> scratch, clips |-> clips, byId |-> byId, idx |-> idx,
     inputPaths |-> inputPaths, probes |-> probes, settleOrder |-> settleOrder,
     audioFlags |-> audioFlags, filter |-> filter, args |-> args,
     response |-> response, log |-> log, injected |-> injected]

Apply(s) ==
    /\ req' = s.req /\ bucket' = s.bucket /\ videos' = s.videos
    /\ objects' = s.objects /\ pc' = s.pc /\ scratch' = s.scratch
    /\ clips' = s.clips /\ byId' = s.byId /\ idx' = s.idx
    /\ inputPaths' = s.inputPaths /\ probes' = s.probes
    /\ settleOrder' = s.settleOrder /\ audioFlags' = s.audioFlags
    /\ filter' = s.filter /\ args' = s.args /\ response' = s.response
    /\ log' = s.log /\ injected' = s.injected

Ev(e, i) == [e |-> e, i |-> i]
Did(s, e, i) == [s EXCEPT !.log = Append(@, Ev(e, i))]
Fault(s, step) == [s EXCEPT !.injected = @ \cup {step}]

\* what a collaborator call (query, download, upload, insert) comes back with
OkResult == [ok |-> TRUE, message |-> <<>>]
Failures == {[ok |-> FALSE, message |-> m] : m \in {<<"ECONNRESET">>, <<>>}}
Results == {OkResult} \cup Failures

NoResponse == [status |-> 0, body |-> <<>>]
NoArgs == [inputs |-> <<>>, filter |-> <<>>, map |-> <<>>, outPath |-> ""]

\* Number(req.user?.id) of the authenticated caller
userId == 1
\* `export-${Date.now()}-${crypto.randomBytes(6).toString("hex")}.mp4`
outName == "export-1700000000000-0a1b2c3d4e5f.mp4"
\* `uploads/${userId}/${outName}`
uploadKey == "uploads/" \o ToString(userId) \o "/" \o outName
\* the id the INSERT ... RETURNING id gives the new row
NewVideoId == "V9"

\* const cleanup = () => { try { fs.rmSync(tmpRoot, ...) } catch {} }
cleanup(s, rmOk) ==
    LET s1 == Did(s, "cleanup", 0)
    IN  IF s1.scratch # "exists" THEN s1
        ELSE IF rmOk THEN [s1 EXCEPT !.scratch = "removed"]
        ELSE Fault(s1, "rm")

\* return res.status(status).json(body)
respond(s, status, body) ==
    [Did(s, "respond", 0) EXCEPT !.response = [status |-> status, body |-> body],
                                 !.pc = "done"]

\* !String(title || "").trim(); a missing title reads as ""
BlankTitle(title) == Trim(title) = <<>>

\* the early returns of the handler
TitleRequired(s, rmOk) == respond(cleanup(s, rmOk), 400, <<"Title is required">>)
\* variant: the empty timeline is not rejected and the handler goes on to the SELECT
TimelineEmpty_GoesOn(s, rmOk) == [Did(s, "query", 0) EXCEPT !.pc = "query"]
TimelineEmpty(s, rmOk) == respond(cleanup(s, rmOk), 400, <<"Timeline is empty">>)
\* variant: the early return forgets cleanup()
MissingBucket_NoCleanup(s, rmOk) ==
    respond(s, 500, <<"Missing env S3_UPLOADS_BUCKET">>)
MissingBucket(s, rmOk) ==
    respond(cleanup(s, rmOk), 500, <<"Missing env S3_UPLOADS_BUCKET">>)
UnknownClip(s, id, rmOk) ==
    respond(cleanup(s, rmOk), 400, <<"Unknown clip videoId ", id>>)
MissingFilename(s, id, rmOk) ==
    respond(cleanup(s, rmOk), 400, <<"Missing filename for ", id>>)

\* variant: the catch block forgets cleanup()
catchBlock_NoCleanup(s, message, rmOk) ==
    respond(s, 500,
            IF message # <<>> THEN message
            ELSE <<"Failed to publish generated video">>)

\* variant: when the removal fails, its error is what the client is told
catchBlock_RemovalMasks(s, message, rmOk) ==
    respond(cleanup(s, rmOk), 500,
            IF ~rmOk /\ s.scratch = "exists" THEN <<"ENOTEMPTY: directory not empty">>
            ELSE IF message # <<>> THEN message
            ELSE <<"Failed to publish generated video">>)

\* catch (e) { cleanup(); return res.status(500).json({ error: e?.message || ... }) }
catchBlock(s, message, rmOk) ==
    respond(cleanup(s, rmOk), 500,
            IF message # <<>> THEN message
            ELSE <<"Failed to publish generated video">>)

\* from the handler's first line to the await of pool.query (SELECT)
EnterHandler(s, fault, rmOk) ==
    IF fault = "mkdtemp" THEN [Fault(s, "mkdtemp") EXCEPT !.pc = "threw"]
    ELSE
    LET s1 == [Did(s, "mkdtemp", 0) EXCEPT !.scratch = "exists"]
    IN  IF fault = "mkdir" THEN [Fault(s1, "mkdir") EXCEPT !.pc = "threw"]
        ELSE IF normTimelineThrows(s.req.timeline)
        THEN catchBlock(s1, <<"Cannot read properties of null (reading 'videoId')">>,
                        rmOk)
        ELSE
        LET s2 == [s1 EXCEPT !.clips = normTimeline(s.req.timeline)]
        IN  IF BlankTitle(s.req.title) THEN TitleRequired(s2, rmOk)
            ELSE IF s2.clips = <<>> THEN TimelineEmpty(s2, rmOk)
            ELSE IF ~s.bucket THEN MissingBucket(s2, rmOk)
            ELSE [Did(s2, "query", 0) EXCEPT !.pc = "query"]

\* SELECT id, filename FROM videos WHERE id::text = ANY($1::text[])
SelectRows(table, ids) == {r \in table : r.id \in ids}

\* new Map(q.rows.map((r) => [String(r.id), r]))
MapById(rows) == [id \in {r.id : r \in rows} |-> CHOOSE r \in rows : r.id = id]

\* variant: only the first clip is looked up
Unresolved_FirstOnly(s) ==
    {i \in 1..Len(s.clips) : i = 1 /\ s.clips[i].videoId \notin DOMAIN s.byId}

\* the clips whose id has no row in byId, by position
Unresolved(s) == {i \in 1..Len(s.clips) : s.clips[i].videoId \notin DOMAIN s.byId}

Min(S) == CHOOSE x \in S : \A y \in S : x <= y

\* variant: the local file is named by the source id alone
LocalPath_ById(i, id) == [dir |-> "inputs", i |-> 0, videoId |-> id]

\* path.join(inputDir, `src-${i}-${c.videoId}.mp4`)
LocalPath(i, id) == [dir |-> "inputs", i |-> i - 1, videoId |-> id]

\* variant: the values are collected in the order the promises settle
PromiseAll_SettleOrder(results, order) ==
    [i \in 1..Len(results) |-> results[order[i]] = "true"]

\* const audioFlags = await Promise.all(...): the i-th value is the i-th promise's
PromiseAll(results, order) ==
    [i \in 1..Len(results) |-> results[i] = "true"]

\* for (const p of inputPaths) args.push("-i", p); args.push(..., filter, ..., outPath)
ffmpegArgs(paths, graph) ==
    [inputs |-> paths, filter |-> graph, map |-> <<"[vout]", "[aout]">>,
     outPath |-> "out/" \o outName]

\* inputPaths.map((p) => hasAudioStream(p)): every prober is spawned, in order
RECURSIVE SpawnProbes(_, _)
SpawnProbes(s, i) ==
    IF i > Len(s.inputPaths) THEN [s EXCEPT !.pc = "probes"]
    ELSE SpawnProbes([Did(s, "probe_start", i) EXCEPT !.probes = Append(@, "running")],
                     i + 1)

\* the download loop from the head of iteration s.idx to its next await
DownloadLoop(s, rmOk) ==
    IF s.idx > Len(s.clips) THEN SpawnProbes(s, 1)
    ELSE LET c == s.clips[s.idx]
             key == s.byId[c.videoId].filename
         IN  IF c.videoId \notin DOMAIN s.byId
             THEN catchBlock(s, <<"Cannot read properties of undefined (reading 'filename')">>,
                             rmOk)
             ELSE IF key = "" THEN MissingFilename(s, c.videoId, rmOk)
             ELSE [Did(s, "download_start", s.idx) EXCEPT !.pc = "download"]

\* from the return of the SELECT to the next await
AfterQuery(s, result, rmOk) ==
    IF ~result.ok THEN catchBlock(Fault(s, "query"), result.message, rmOk)
    ELSE
    LET ids == {s.clips[i].videoId : i \in 1..Len(s.clips)}
        s1 == [s EXCEPT !.byId = MapById(SelectRows(s.videos, ids))]
    IN  IF Unresolved(s1) # {}
        THEN UnknownClip(s1, s1.clips[Min(Unresolved(s1))].videoId, rmOk)
        ELSE DownloadLoop([s1 EXCEPT !.idx = 1], rmOk)

\* variant: a failed download is skipped and the loop goes on
AfterDownload_SkipFailed(s, result, rmOk) ==
    IF ~result.ok
    THEN DownloadLoop([Fault(Did(s, "download_failed", s.idx), "download") EXCEPT
                          !.idx = @ + 1],
                      rmOk)
    ELSE DownloadLoop(
            [Did(s, "download_done", s.idx) EXCEPT
                !.inputPaths = Append(@, LocalPath(s.idx, s.clips[s.idx].videoId)),
                !.idx = @ + 1],
            rmOk)

\* from the return of downloadS3ToFile for clip s.idx to the next await
AfterDownload(s, result, rmOk) ==
    IF ~result.ok
    THEN catchBlock(Fault(Did(s, "download_failed", s.idx), "download"),
                    result.message, rmOk)
    ELSE DownloadLoop(
            [Did(s, "download_done", s.idx) EXCEPT
                !.inputPaths = Append(@, LocalPath(s.idx, s.clips[s.idx].videoId)),
                !.idx = @ + 1],
            rmOk)

\* after Promise.all: build the graph and the arguments, spawn ffmpeg
AfterProbes(s) ==
    LET flags == PromiseAll(s.probes, s.settleOrder)
        graph == buildFilterForConcat(s.clips, flags)
    IN  [Did(Did(s, "graph", 0), "encode_start", 0) EXCEPT
            !.audioFlags = flags, !.filter = graph,
            !.args = ffmpegArgs(s.inputPaths, graph), !.pc = "encode"]

\* variant: hasAudioStream lets the rejection of runCmd through to Promise.all
ProbeSettles_Propagates(s, i, run) ==
    LET r == runCmd("ffprobe", run)
        s1 == [Did(s, "probe_" \o RunKind(run), i) EXCEPT
                  !.probes[i] = IF hasAudioStream(run) THEN "true" ELSE "false",
                  !.settleOrder = Append(@, i)]
    IN  IF r.promise = "rejected" THEN catchBlock(Fault(s1, "probe"), r.message, TRUE)
        ELSE IF \A j \in 1..Len(s1.probes) : s1.probes[j] # "running"
        THEN AfterProbes(s1) ELSE s1

\* the prober of input i settles; the last one lets Promise.all resolve
ProbeSettles(s, i, run) ==
    LET flag == hasAudioStream(run)
        s1 == [Did(s, "probe_" \o RunKind(run), i) EXCEPT
                  !.probes[i] = IF flag THEN "true" ELSE "false",
                  !.settleOrder = Append(@, i)]
        s2 == IF runCmd("ffprobe", run).promise = "rejected"
              THEN Fault(s1, "probe") ELSE s1
    IN  IF \A j \in 1..Len(s2.probes) : s2.probes[j] # "running"
        THEN AfterProbes(s2) ELSE s2

\* from the settling of runCmd("ffmpeg", args) to the await of the upload
AfterEncode(s, run, rmOk) ==
    LET r == runCmd("ffmpeg", run)
        s1 == Did(s, "encode_exit", ExitOf(run))
    IN  IF r.promise = "rejected"
        THEN catchBlock(Fault(s1, "encode"), r.message, rmOk)
        ELSE [Did(s1, "upload_start", 0) EXCEPT !.pc = "upload"]

\* from the return of uploadFileToS3 to the await of the INSERT
AfterUpload(s, result, rmOk) ==
    IF ~result.ok
    THEN catchBlock(Fault(Did(s, "upload_failed", 0), "upload"), result.message, rmOk)
    ELSE [Did(Did(s, "upload_done", 0), "insert_start", 0) EXCEPT
             !.objects = @ \cup {uploadKey}, !.pc = "insert"]

\* variant: a failed INSERT is compensated by deleting the uploaded object
AfterInsert_DeletesUpload(s, result, rmOk) ==
    IF ~result.ok
    THEN catchBlock([Fault(Did(s, "insert_failed", 0), "insert") EXCEPT
                        !.objects = @ \ {uploadKey}],
                    result.message, rmOk)
    ELSE respond(
            cleanup([Did(s, "insert_done", 0) EXCEPT
                        !.videos = @ \cup {[id |-> NewVideoId, filename |-> uploadKey]}],
                    rmOk),
            200, <<"ok", NewVideoId>>)

\* from the return of the INSERT to the success response
AfterInsert(s, result, rmOk) ==
    IF ~result.ok
    THEN catchBlock(Fault(Did(s, "insert_failed", 0), "insert"), result.message, rmOk)
    ELSE respond(
            cleanup([Did(s, "insert_done", 0) EXCEPT
                        !.videos = @ \cup {[id |-> NewVideoId, filename |-> uploadKey]}],
                    rmOk),
            200, <<"ok", NewVideoId>>)

(***************************************************************************)
(* The export request: inputs and actions.                                 *)
(***************************************************************************)
\* the videos table before the request: B has no filename, C has no row
Catalogue ==
    {[id |-> "A", filename |-> "a.mp4"], [id |-> "D", filename |-> "d.mp4"],
     [id |-> "B", filename |-> ""]}

\* timeline elements a client may send
HandlerElems ==
    {Elem("A", Undef, Num(0), Num(0), Num(2)),
     Elem("D", Undef, Num(1), Num(1), Num(2)),
     Elem(Undef, "B", Num(0), NoNum, Num(1)),
     Elem("C", Undef, Num(0), Num(0), Num(1)),
     Elem("A", Undef, Num(0), Num(2), Num(1)),
     NullElem}

Timelines ==
    {[isArray |-> TRUE, items |-> q] : q \in SeqsUpTo(HandlerElems, MaxClips)}
    \cup {[isArray |-> FALSE, items |-> <<>>]}

Titles == {<<>>, <<" ">>, <<"x">>}

\* what ffprobe and ffmpeg may do in a request: print the marker and exit 0,
\* print the marker and exit 1, print something else, print nothing, fail with
\* and without text on stderr, fail to launch
HandlerRuns ==
    {<<StdoutEv(<<"audio">>), StdoutEv(<<" ">>), CloseEv(0)>>,
     <<StdoutEv(<<"audio">>), CloseEv(1)>>,
     <<StdoutEv(<<"x">>), CloseEv(0)>>,
     <<CloseEv(0)>>,
     <<StderrEv(<<"x">>), CloseEv(1)>>,
     <<CloseEv(1)>>,
     <<ErrorEv, CloseEv(LaunchFailCode)>>}

IdleCall == [NewCall("none") EXCEPT !.spawns = 0]

Closed(c) == HasEvent(c.events, "close")
Errored(c) == HasEvent(c.events, "error")
Emit(c, ev) == [Dispatch(c, ev) EXCEPT !.events = Append(c.events, ev)]

Init ==
    /\ req \in [title : Titles, timeline : Timelines]
    /\ bucket \in BOOLEAN
    /\ videos = Catalogue
    /\ objects = {"a.mp4", "d.mp4"}
    /\ pc = "start"
    /\ scratch = "none"
    /\ clips = <<>>
    /\ byId = <<>>
    /\ idx = 0
    /\ inputPaths = <<>>
    /\ probes = <<>>
    /\ settleOrder = <<>>
    /\ audioFlags = <<>>
    /\ filter = <<>>
    /\ args = NoArgs
    /\ response = NoResponse
    /\ log = <<>>
    /\ injected = {}
    /\ rc = IdleCall
    /\ tmpDirs = {}
    /\ jobs = <<>>

\* the request reaches the handler
Enter ==
    /\ pc = "start"
    /\ \E fault \in {"none", "mkdtemp", "mkdir"}, rmOk \in BOOLEAN :
          Apply(EnterHandler(Cur, fault, rmOk))
    /\ UNCHANGED <<rc, tmpDirs, jobs>>

QueryReturns ==
    /\ pc = "query"
    /\ \E result \in Results, rmOk \in BOOLEAN : Apply(AfterQuery(Cur, result, rmOk))
    /\ UNCHANGED <<rc, tmpDirs, jobs>>

DownloadReturns ==
    /\ pc = "download"
    /\ \E result \in Results, rmOk \in BOOLEAN : Apply(AfterDownload(Cur, result, rmOk))
    /\ UNCHANGED <<rc, tmpDirs, jobs>>

ProbeCloses ==
    /\ pc = "probes"
    /\ \E i \in 1..Len(probes), run \in HandlerRuns :
          /\ probes[i] = "running"
          /\ Apply(ProbeSettles(Cur, i, run))
    /\ UNCHANGED <<rc, tmpDirs, jobs>>

EncoderCloses ==
    /\ pc = "encode"
    /\ \E run \in HandlerRuns, rmOk \in BOOLEAN : Apply(AfterEncode(Cur, run, rmOk))
    /\ UNCHANGED <<rc, tmpDirs, jobs>>

UploadReturns ==
    /\ pc = "upload"
    /\ \E result \in Results, rmOk \in BOOLEAN : Apply(AfterUpload(Cur, result, rmOk))
    /\ UNCHANGED <<rc, tmpDirs, jobs>>

InsertReturns ==
    /\ pc = "insert"
    /\ \E result \in Results, rmOk \in BOOLEAN : Apply(AfterInsert(Cur, result, rmOk))
    /\ UNCHANGED <<rc, tmpDirs, jobs>>

Next ==
    \/ Enter
    \/ QueryReturns
    \/ DownloadReturns
    \/ ProbeCloses
    \/ EncoderCloses
    \/ UploadReturns
    \/ InsertReturns

Spec == Init /\ [][Next]_vars

\* the same request when every collaborator call and child process it awaits
\* eventually returns, fails or exits
SpecLive ==
    /\ Init /\ [][Next]_vars
    /\ WF_vars(Enter)
    /\ WF_vars(QueryReturns)
    /\ WF_vars(DownloadReturns)
    /\ WF_vars(ProbeCloses)
    /\ WF_vars(EncoderCloses)
    /\ WF_vars(UploadReturns)
    /\ WF_vars(InsertReturns)

(***************************************************************************)
(* One runCmd call, event by event.                                        *)
(***************************************************************************)
InitRunCmd ==
    /\ req = [title |-> <<>>, timeline |-> [isArray |-> FALSE, items |-> <<>>]]
    /\ bucket = FALSE
    /\ videos = Catalogue
    /\ objects = {}
    /\ pc = "idle"
    /\ scratch = "none"
    /\ clips = <<>>
    /\ byId = <<>>
    /\ idx = 0
    /\ inputPaths = <<>>
    /\ probes = <<>>
    /\ settleOrder = <<>>
    /\ audioFlags = <<>>
    /\ filter = <<>>
    /\ args = NoArgs
    /\ response = NoResponse
    /\ log = <<>>
    /\ injected = {}
    /\ rc \in {NewCall(cmd) : cmd \in {"ffprobe", "ffmpeg"}}
    /\ tmpDirs = {}
    /\ jobs = <<>>

ChildStdout ==
    /\ ~Closed(rc) /\ ~Errored(rc) /\ Len(rc.events) < MaxData
    /\ \E a \in Atoms : rc' = Emit(rc, StdoutEv(<<a>>))
    /\ UNCHANGED <<hvars, tmpDirs, jobs>>

ChildStderr ==
    /\ ~Closed(rc) /\ ~Errored(rc) /\ Len(rc.events) < MaxData
    /\ \E a \in Atoms : rc' = Emit(rc, StderrEv(<<a>>))
    /\ UNCHANGED <<hvars, tmpDirs, jobs>>

\* the launch fails: 'error' is emitted before anything else
ChildError ==
    /\ rc.events = <<>>
    /\ rc' = Emit(rc, ErrorEv)
    /\ UNCHANGED <<hvars, tmpDirs, jobs>>

ChildClose ==
    /\ ~Closed(rc)
    /\ \E code \in (IF Errored(rc) THEN {LaunchFailCode} ELSE ExitCodes) :
          rc' = Emit(rc, CloseEv(code))
    /\ UNCHANGED <<hvars, tmpDirs, jobs>>

NextRunCmd ==
    \/ ChildStdout
    \/ ChildStderr
    \/ ChildError
    \/ ChildClose

SpecRunCmd == InitRunCmd /\ [][NextRunCmd]_vars

(***************************************************************************)
(* One runCmd call whose child emits 'error' and 'close' in any order.     *)
(***************************************************************************)
\* 'error' is emitted after stream data or after 'close'
ChildLateError ==
    /\ rc.events # <<>> /\ ~Errored(rc)
    /\ rc' = Emit(rc, ErrorEv)
    /\ UNCHANGED <<hvars, tmpDirs, jobs>>

\* 'close' is emitted after 'error', with any exit status
ChildCloseAfterError ==
    /\ Errored(rc) /\ ~Closed(rc)
    /\ \E code \in ExitCodes : rc' = Emit(rc, CloseEv(code))
    /\ UNCHANGED <<hvars, tmpDirs, jobs>>

NextRunCmdAnyOrder ==
    \/ ChildStdout
    \/ ChildStderr
    \/ ChildError
    \/ ChildClose
    \/ ChildLateError
    \/ ChildCloseAfterError

SpecRunCmdAnyOrder == InitRunCmd /\ [][NextRunCmdAnyOrder]_vars

(***************************************************************************)
(* Several export requests in flight.  Of each request only its scratch    *)
(* directory is kept: created on entry, removed by its cleanup().          *)
(***************************************************************************)
MaxJobs == 2

\* the names mkdtemp can make up: `${os.tmpdir()}/mytube-export-XXXXXX`
DirNames == {"mytube-export-" \o ToString(i) : i \in 1..(MaxJobs + 1)}

\* variant: the scratch root has one fixed name
Mkdtemp_FixedName(dirs) == {"mytube-export-1"}

\* fs.mkdtempSync(prefix): creates a directory that did not exist
Mkdtemp(dirs) == DirNames \ dirs

\* fs.rmSync(tmpRoot, { recursive: true, force: true }) inside try/catch
RmSync(dirs, root, rmOk) == IF rmOk THEN dirs \ {root} ELSE dirs

NewJob == [pc |-> "start", tmpRoot |-> "", status |-> 0, beside |-> {}]

InFlight(r) == jobs[r].pc = "awaiting"

\* the other requests in flight
Others(r) == {q \in DOMAIN jobs : q # r /\ InFlight(q)}

InitJobs ==
    /\ req = [title |-> <<>>, timeline |-> [isArray |-> FALSE, items |-> <<>>]]
    /\ bucket = TRUE
    /\ videos = Catalogue
    /\ objects = {}
    /\ pc = "idle"
    /\ scratch = "none"
    /\ clips = <<>>
    /\ byId = <<>>
    /\ idx = 0
    /\ inputPaths = <<>>
    /\ probes = <<>>
    /\ settleOrder = <<>>
    /\ audioFlags = <<>>
    /\ filter = <<>>
    /\ args = NoArgs
    /\ response = NoResponse
    /\ log = <<>>
    /\ injected = {}
    /\ rc = IdleCall
    /\ tmpDirs = {}
    /\ jobs = [r \in 1..MaxJobs |-> NewJob]

\* request r reaches the handler: mkdtempSync, then mkdirSync throws
JobMkdirFails(r) ==
    /\ jobs[r].pc = "start"
    /\ \E root \in Mkdtemp(tmpDirs) :
          /\ tmpDirs' = tmpDirs \cup {root}
          /\ jobs' = [jobs EXCEPT ![r] = [@ EXCEPT !.pc = "threw", !.tmpRoot = root]]
    /\ UNCHANGED <<hvars, rc>>

\* request r reaches the handler and is rejected before its first await
JobRejected(r) ==
    /\ jobs[r].pc = "start"
    /\ \E root \in Mkdtemp(tmpDirs), status \in {400, 500}, rmOk \in BOOLEAN :
          /\ tmpDirs' = RmSync(tmpDirs \cup {root}, root, rmOk)
          /\ jobs' = [jobs EXCEPT ![r] = [pc |-> "done", tmpRoot |-> root,
                                          status |-> status, beside |-> Others(r)]]
    /\ UNCHANGED <<hvars, rc>>

\* request r reaches the handler and suspends at its first await
JobSuspends(r) ==
    /\ jobs[r].pc = "start"
    /\ \E root \in Mkdtemp(tmpDirs) :
          /\ tmpDirs' = tmpDirs \cup {root}
          /\ jobs' = [jobs EXCEPT ![r] = [@ EXCEPT !.pc = "awaiting", !.tmpRoot = root]]
    /\ UNCHANGED <<hvars, rc>>

\* request r resumes for the last time: cleanup() and the response
JobFinishes(r) ==
    /\ InFlight(r)
    /\ \E status \in {200, 400, 500}, rmOk \in BOOLEAN :
          /\ tmpDirs' = RmSync(tmpDirs, jobs[r].tmpRoot, rmOk)
          /\ jobs' = [jobs EXCEPT ![r] = [@ EXCEPT !.pc = "done", !.status = status,
                                                   !.beside = Others(r)]]
    /\ UNCHANGED <<hvars, rc>>

NextJobs ==
    \/ \E r \in 1..MaxJobs : JobMkdirFails(r)
    \/ \E r \in 1..MaxJobs : JobRejected(r)
    \/ \E r \in 1..MaxJobs : JobSuspends(r)
    \/ \E r \in 1..MaxJobs : JobFinishes(r)

SpecJobs == InitJobs /\ [][NextJobs]_vars

\* C23: with several requests in flight no two of them have the same scratch
\* directory, and the scratch directory of a request in flight exists: the
\* cleanup of another request, on success or failure, has not removed it.
C23_ScratchDirsDisjoint ==
    /\ \A r, q \in DOMAIN jobs :
          (r # q /\ InFlight(r) /\ InFlight(q)) => jobs[r].tmpRoot # jobs[q].tmpRoot
    /\ \A r \in DOMAIN jobs : InFlight(r) => jobs[r].tmpRoot \in tmpDirs

C23_Witness ==
    /\ jobs[1].pc = "done" /\ jobs[1].status = 500 /\ jobs[1].beside = {2}
    /\ jobs[1].tmpRoot \notin tmpDirs
    /\ InFlight(2)
    /\ jobs[2].tmpRoot \in tmpDirs

(***************************************************************************)
(* Properties of the export request (Spec).                                *)
(***************************************************************************)
Responded == response.status # 0
Failed == response.status >= 400

\* positions of the log at which effect e happened
At(e) == {p \in 1..Len(log) : log[p].e = e}
AtI(e, i) == {p \in 1..Len(log) : log[p] = Ev(e, i)}
Before(e, p) == {q \in At(e) : q < p}

\* the steps of the orchestrator whose collaborator can be made to fail
OrchestratorSteps == {"query", "download", "probe", "encode", "upload", "insert"}
InfraSteps == {"query", "download", "encode", "upload", "insert"}

\* what the handler does after source resolution
LaterEffects ==
    {"download_start", "download_done", "download_failed", "probe_start",
     "probe_audio", "probe_badoutput", "probe_nonzero", "probe_launch", "graph",
     "encode_start", "encode_exit", "upload_start", "upload_done", "upload_failed",
     "insert_start", "insert_done", "insert_failed"}
ProbeDone == {"probe_audio", "probe_badoutput", "probe_nonzero", "probe_launch"}
ProbeFailed == {"probe_badoutput", "probe_nonzero", "probe_launch"}

\* C1: once a failure response has been sent, whatever orchestrator step the
\* failure was injected at (and for validation failures, which need no injected
\* failure), the request's scratch directory has been removed.
C1_ScratchRemovedAfterFailure ==
    (Failed /\ injected \subseteq OrchestratorSteps) => scratch = "removed"

C1_Witness ==
    /\ response.status = 500
    /\ injected = {"encode"}
    /\ scratch = "removed"
    /\ Len(inputPaths) = 2

\* C2: every response the handler sends (4xx validation, 5xx config, 5xx caught
\* exception, success) is preceded in program order by a call of cleanup, and the
\* handler sends at most one response.
C2_CleanupBeforeResponse ==
    /\ \A p \in At("respond") : Before("cleanup", p) # {}
    /\ Cardinality(At("respond")) <= 1
    /\ Responded <=> At("respond") # {}

C2_Witness ==
    /\ response = [status |-> 500, body |-> <<"Missing env S3_UPLOADS_BUCKET">>]
    /\ Before("cleanup", Len(log)) # {}

\* the SELECT has returned its rows
QueryAnswered == At("query") # {} /\ pc # "query" /\ "query" \notin injected
\* some clip of the normalized timeline has no row in the videos table
SomeSourceUnknown ==
    \E i \in 1..Len(clips) : clips[i].videoId \notin {r.id : r \in videos}

\* C3: when the SELECT returns no row for some source id of the normalized
\* timeline, the request is answered 400 without any download, probe, encode,
\* upload or insert, and (unless removal itself fails) the scratch directory is
\* removed.
C3_UnknownSourceFailsBeforeDownload ==
    (QueryAnswered /\ SomeSourceUnknown) =>
        /\ response.status = 400
        /\ \A p \in 1..Len(log) : log[p].e \notin LaterEffects
        /\ inputPaths = <<>>
        /\ "rm" \notin injected => scratch = "removed"

C3_Witness ==
    /\ QueryAnswered
    /\ Len(clips) = 2
    /\ clips[1].videoId = "A" /\ clips[2].videoId = "C"
    /\ response = [status |-> 400, body |-> <<"Unknown clip videoId ", "C">>]
    /\ scratch = "removed"

\* C4: a prober is started only after all clips are downloaded, the graph is
\* built only after all probers have settled, and audioFlags[i] is the result of
\* the prober of input i whatever the order the probers settled in.
C4_ProbesAfterDownloadsFlagsByPosition ==
    /\ \A p \in At("probe_start") :
          Cardinality(Before("download_done", p)) = Len(clips)
    /\ \A p \in At("graph") :
          /\ Cardinality({q \in 1..(p - 1) : log[q].e \in ProbeDone}) = Len(clips)
          /\ Len(audioFlags) = Len(clips)
          /\ \A i \in 1..Len(clips) :
                /\ inputPaths[i] = LocalPath(i, clips[i].videoId)
                /\ audioFlags[i] <=> AtI("probe_audio", i) # {}

C4_Witness ==
    /\ At("graph") # {}
    /\ settleOrder = <<2, 1>>
    /\ audioFlags = <<TRUE, FALSE>>

\* C5: at most one record is inserted, the INSERT is issued only after the
\* encoder closed with status 0 and the upload succeeded, and a request that
\* fails without a completed upload leaves the videos table as it was.
C5_SingleInsertAfterEncodeAndUpload ==
    /\ Cardinality(At("insert_start")) <= 1
    /\ Cardinality(At("insert_done")) <= 1
    /\ Cardinality(videos \ Catalogue) <= 1
    /\ videos # Catalogue => At("insert_done") # {}
    /\ \A p \in At("insert_start") \cup At("insert_done") :
          \E q \in AtI("encode_exit", 0) : \E u \in At("upload_done") :
              q < u /\ u < p
    /\ (Failed /\ At("upload_done") = {}) =>
          videos = Catalogue /\ At("insert_start") = {}

C5_Witness ==
    /\ response.status = 200
    /\ videos = Catalogue \cup {[id |-> NewVideoId, filename |-> uploadKey]}
    /\ uploadKey \in objects

\* C6: after a failed download or a non-zero exit of the encoder nothing but the
\* cleanup and the response follows, and the response is a 500.
C6_FailureAbortsRequest ==
    \A p \in 1..Len(log) :
        (log[p].e = "download_failed" \/ (log[p].e = "encode_exit" /\ log[p].i # 0)) =>
            /\ \A q \in (p + 1)..Len(log) : log[q].e \in {"cleanup", "respond"}
            /\ response.status = 500
            /\ pc = "done"

C6_Witness ==
    /\ AtI("download_failed", 1) # {}
    /\ Len(clips) = 2
    /\ inputPaths = <<>>
    /\ response.status = 500

\* C7: a prober that fails for input i (launch failure, non-zero exit, output
\* other than the marker) does not end the request: once all probers have
\* settled the encoder is started with audioFlags[i] false and the audio stage of
\* clip i is silence of clip i's duration.
C7_ProbeFailureDegradesToSilence ==
    \A i \in 1..Len(probes) :
        (\E p \in 1..Len(log) : log[p].e \in ProbeFailed /\ log[p].i = i) =>
            /\ probes[i] = "false"
            /\ pc = "probes" => ~Responded
            /\ pc # "probes" =>
                  /\ At("encode_start") # {}
                  /\ audioFlags[i] = FALSE
                  /\ filter[2 * i] =
                        Stage("aevalsrc", 0 - 1, 0, clips[i].out - clips[i].in,
                              Label("a", i - 1))

C7_Witness ==
    /\ AtI("probe_launch", 1) # {}
    /\ AtI("probe_audio", 2) # {}
    /\ pc = "upload"
    /\ filter[2].stage = "aevalsrc" /\ filter[4].stage = "atrim"

\* C10: a 5xx response is sent only for a missing bucket or a failed collaborator
\* call (no client-caused problem yields 5xx), a 4xx response only when no
\* collaborator call failed, and a request with a blank title is answered 400.
C10_StatusClassMatchesCause ==
    Responded =>
        /\ response.status = 500 => (~bucket \/ injected \cap InfraSteps # {})
        /\ response.status = 400 => injected \cap InfraSteps = {}
        /\ BlankTitle(req.title) => response.status = 400

\* the message the catch block falls back to
GenericMessage == <<"Failed to publish generated video">>

\* C11: the body of a 500 response sent for a failed collaborator call (query,
\* download, encode, upload, insert) is the generic message whatever text the
\* error carried, so that two requests failing at the same step with different
\* error texts receive the same body.
C11_FatalBodyIsGeneric ==
    (response.status = 500 /\ injected \cap InfraSteps # {}) =>
        response.body = GenericMessage

\* C18: once the encoder is started it has one input per clip of the normalized
\* timeline, in order; input i is the file downloaded for clip i, named by
\* position and source id, so that clips of the same source get different
\* files; and the concat stage counts as many segments as there are inputs.
C18_OneInputPerClipInOrder ==
    At("encode_start") # {} =>
        /\ Len(args.inputs) = Len(clips)
        /\ \A i \in 1..Len(clips) :
              /\ args.inputs[i] =
                    [dir |-> "inputs", i |-> i - 1, videoId |-> clips[i].videoId]
              /\ args.inputs[i] = inputPaths[i]
              /\ AtI("download_done", i) # {}
              /\ args.filter[2 * i - 1].input = i - 1
        /\ \A i, j \in 1..Len(clips) : i # j => args.inputs[i] # args.inputs[j]
        /\ args.filter = filter
        /\ filter[Len(filter)].stage = "concat"
        /\ filter[Len(filter)].n = Len(args.inputs)

C18_Witness ==
    /\ At("encode_start") # {}
    /\ Len(clips) = 2
    /\ clips[1].videoId = "A" /\ clips[2].videoId = "A"
    /\ args.inputs[1] # args.inputs[2]

\* what the handler does with its collaborators
CollaboratorEffects == {"query"} \cup LaterEffects

\* C22: a request with a blank title, an empty normalized timeline (a non-array
\* value included) or no configured bucket never reaches a collaborator: no
\* query, download, probe, encoder run, upload or insert happens; and when the
\* normalizer returns, the request is answered by the first check that fails,
\* in the order title, timeline, bucket.
C22_EarlyRejectionTouchesNothing ==
    LET returns == ~normTimelineThrows(req.timeline)
        empty == returns /\ normTimeline(req.timeline) = <<>>
    IN  /\ (BlankTitle(req.title) \/ empty \/ ~bucket) =>
              /\ \A p \in 1..Len(log) : log[p].e \notin CollaboratorEffects
              /\ videos = Catalogue /\ objects = {"a.mp4", "d.mp4"}
              /\ inputPaths = <<>> /\ probes = <<>> /\ args = NoArgs
        /\ (pc \notin {"start", "threw"} /\ returns) =>
              IF BlankTitle(req.title)
              THEN response = [status |-> 400, body |-> <<"Title is required">>]
              ELSE IF empty
              THEN response = [status |-> 400, body |-> <<"Timeline is empty">>]
              ELSE ~bucket =>
                      response = [status |-> 500,
                                  body |-> <<"Missing env S3_UPLOADS_BUCKET">>]

C22_Witness ==
    /\ ~req.timeline.isArray
    /\ req.title = <<"x">>
    /\ ~bucket
    /\ response = [status |-> 400, body |-> <<"Timeline is empty">>]
    /\ At("cleanup") # {} /\ At("query") = {}

\* handler states a and b differ at most in what became of the scratch directory
SameButScratch(a, b) ==
    [a EXCEPT !.scratch = "none", !.injected = @ \ {"rm"}] =
        [b EXCEPT !.scratch = "none", !.injected = @ \ {"rm"}]

\* C24: a failing removal of the scratch directory is swallowed: whatever the
\* handler does next (early return, caught failure or success), the response and
\* everything else but the directory itself are the same whether the removal
\* succeeds or fails, and after a failed removal the response has been sent.
C24_RemovalFailureSwallowed ==
    /\ pc = "start" =>
          \A fault \in {"none", "mkdtemp", "mkdir"} :
              SameButScratch(EnterHandler(Cur, fault, TRUE),
                             EnterHandler(Cur, fault, FALSE))
    /\ pc = "query" =>
          \A result \in Results :
              SameButScratch(AfterQuery(Cur, result, TRUE),
                             AfterQuery(Cur, result, FALSE))
    /\ pc = "download" =>
          \A result \in Results :
              SameButScratch(AfterDownload(Cur, result, TRUE),
                             AfterDownload(Cur, result, FALSE))
    /\ pc = "encode" =>
          \A run \in HandlerRuns :
              SameButScratch(AfterEncode(Cur, run, TRUE), AfterEncode(Cur, run, FALSE))
    /\ pc = "upload" =>
          \A result \in Results :
              SameButScratch(AfterUpload(Cur, result, TRUE),
                             AfterUpload(Cur, result, FALSE))
    /\ pc = "insert" =>
          \A result \in Results :
              SameButScratch(AfterInsert(Cur, result, TRUE),
                             AfterInsert(Cur, result, FALSE))
    /\ "rm" \in injected => (pc = "done" /\ Responded /\ scratch = "exists")

C24_Witness ==
    /\ "rm" \in injected
    /\ injected \cap InfraSteps = {"upload"}
    /\ response = [status |-> 500, body |-> <<"ECONNRESET">>]
    /\ scratch = "exists"

\* C26: when the scratch root was created and creating inputs/ or out/ under it
\* then fails, the scratch root is removed and the request gets an error
\* response.
C26_MkdirFailureCleansUp ==
    "mkdir" \in injected => (scratch = "removed" /\ Failed)

\* C27: when a resolved row has an empty filename the request is answered 400
\* and no download was started for any clip, the clips before the offending one
\* included.
C27_MissingFilenameBeforeAnyDownload ==
    (Responded /\ response.body # <<>> /\ response.body[1] = "Missing filename for ") =>
        /\ response.status = 400
        /\ At("download_start") = {}
        /\ inputPaths = <<>>

\* C30: when the INSERT fails after the upload, the request ends with a 500, the
\* scratch directory is removed (unless the removal itself fails), the uploaded
\* object stays in the bucket and no row refers to it; and every inserted row
\* carries the key uploads/<userId>/<outName> that this request uploaded.
C30_FailedInsertLeavesUpload ==
    /\ "insert" \in injected =>
          /\ pc = "done" /\ response.status = 500
          /\ "rm" \notin injected => scratch = "removed"
          /\ At("upload_done") # {}
          /\ uploadKey \in objects
          /\ videos = Catalogue
    /\ \A row \in videos \ Catalogue :
          /\ row.filename = "uploads/1/export-1700000000000-0a1b2c3d4e5f.mp4"
          /\ row.filename \in objects
          /\ At("upload_done") # {} /\ "upload" \notin injected

C30_Witness ==
    /\ injected = {"insert"}
    /\ response = [status |-> 500, body |-> <<"ECONNRESET">>]
    /\ scratch = "removed"
    /\ uploadKey \in objects
    /\ \A row \in videos : row.filename # uploadKey

\* C29: when every collaborator call eventually returns or fails, every request
\* that reaches the handler eventually has its response sent and its scratch
\* directory removed.
C29_EveryRequestEndsCleanly == <>(Responded /\ scratch = "removed")

(***************************************************************************)
(* Properties of one runCmd call (SpecRunCmd).                             *)
(***************************************************************************)
\* C8: once the prober has closed, hasAudioStream returns true exactly when it
\* exited with status 0 and its whole standard output, trimmed, is the marker.
C8_HasAudioIffExitZeroAndMarker ==
    (rc.cmd = "ffprobe" /\ Closed(rc)) =>
        (HasAudioOf(rc) <=>
            /\ ~Errored(rc)
            /\ ExitOf(rc.events) = 0
            /\ Trim(TextOf(rc.events, "stdout")) = <<"audio">>)

C8_Witness ==
    /\ rc.cmd = "ffprobe" /\ Closed(rc)
    /\ TextOf(rc.events, "stdout") = <<"audio", " ">>
    /\ HasAudioOf(rc)

\* C9: the promise resolves, with all captured stdout and stderr, exactly when
\* the child closes with status 0; a close with another status rejects with the
\* captured stderr or, if none, "<cmd> exited with code N"; a launch failure
\* rejects; the process is spawned once.
C9_RunCmdOutcome ==
    /\ rc.spawns = 1
    /\ rc.promise = "resolved" =>
          /\ Closed(rc) /\ ExitOf(rc.events) = 0
          /\ rc.valueOut = TextOf(rc.events, "stdout")
          /\ rc.valueErr = TextOf(rc.events, "stderr")
    /\ (Closed(rc) /\ ~Errored(rc) /\ ExitOf(rc.events) = 0) => rc.promise = "resolved"
    /\ (Closed(rc) /\ ~Errored(rc) /\ ExitOf(rc.events) # 0) =>
          /\ rc.promise = "rejected"
          /\ rc.message =
                IF TextOf(rc.events, "stderr") # <<>> THEN TextOf(rc.events, "stderr")
                ELSE <<rc.cmd, " exited with code ", ToString(ExitOf(rc.events))>>
    /\ Errored(rc) => rc.promise = "rejected" /\ rc.message = ErrorEv.d
    /\ (~Closed(rc) /\ ~Errored(rc)) => rc.promise = "pending"

C9_Witness ==
    /\ Closed(rc) /\ ExitOf(rc.events) = 1
    /\ TextOf(rc.events, "stdout") # <<>>
    /\ rc.message = <<"ffmpeg", " exited with code ", "1">>

(***************************************************************************)
(* normTimeline and buildFilterForConcat on their own: a raw timeline is   *)
(* normalized, the result is normalized again or turned into a graph.      *)
(***************************************************************************)
MaxRaw == 3

\* raw timeline elements: valid ones (two of them with the same start), one
\* with an empty videoId beside an id, and one for each way of being invalid
RawElems ==
    {Elem("A", Undef, Num(0), Num(0), Num(2)),
     Elem("D", Undef, Num(1), Num(1), Num(2)),
     Elem(Undef, "B", Num(0), NoNum, Num(1)),
     Elem("A", Undef, Num(2), Num(0), Num(1)),
     Elem("", "B", Num(0), Num(0), Num(1)),
     Elem("A", Undef, Num(0), Num(2), Num(1)),
     Elem("A", Undef, Num(0), Num(1), Num(1)),
     Elem("A", Undef, Num(0 - 1), Num(0), Num(1)),
     Elem("A", Undef, NaN, Num(0), Num(1)),
     Elem("A", Undef, Num(0), Num(0), Infinity),
     Elem(Undef, Undef, Num(0), Num(0), Num(1)),
     Elem("A", Undef, NoNum, NoNum, NoNum),
     NullElem}

RawTimelines ==
    {[isArray |-> TRUE, items |-> q] : q \in SeqsUpTo(RawElems, MaxRaw)}
    \cup {[isArray |-> FALSE, items |-> <<>>]}

\* the clips normTimeline returned, handed to it again
AsRaw(cs) ==
    [isArray |-> TRUE,
     items |-> [i \in 1..Len(cs) |->
                   Elem(cs[i].videoId, Undef, Num(cs[i].start), Num(cs[i].in),
                        Num(cs[i].out))]]

InitTimeline ==
    /\ req \in [title : {<<"x">>}, timeline : RawTimelines]
    /\ bucket = FALSE
    /\ videos = Catalogue
    /\ objects = {}
    /\ pc = "raw"
    /\ scratch = "none"
    /\ clips = <<>>
    /\ byId = <<>>
    /\ idx = 0
    /\ inputPaths = <<>>
    /\ probes = <<>>
    /\ settleOrder = <<>>
    /\ audioFlags = <<>>
    /\ filter = <<>>
    /\ args = NoArgs
    /\ response = NoResponse
    /\ log = <<>>
    /\ injected = {}
    /\ rc = IdleCall
    /\ tmpDirs = {}
    /\ jobs = <<>>

Normalize ==
    /\ pc = "raw"
    /\ ~normTimelineThrows(req.timeline)
    /\ clips' = normTimeline(req.timeline)
    /\ pc' = "normalized"
    /\ UNCHANGED <<req, bucket, videos, objects, scratch, byId, idx, inputPaths,
                   probes, settleOrder, audioFlags, filter, args, response, log,
                   injected, rc, tmpDirs, jobs>>

NormalizeThrows ==
    /\ pc = "raw"
    /\ normTimelineThrows(req.timeline)
    /\ pc' = "threw"
    /\ UNCHANGED <<req, bucket, videos, objects, scratch, clips, byId, idx,
                   inputPaths, probes, settleOrder, audioFlags, filter, args,
                   response, log, injected, rc, tmpDirs, jobs>>

Renormalize ==
    /\ pc = "normalized"
    /\ clips' = normTimeline(AsRaw(clips))
    /\ pc' = "renormalized"
    /\ UNCHANGED <<req, bucket, videos, objects, scratch, byId, idx, inputPaths,
                   probes, settleOrder, audioFlags, filter, args, response, log,
                   injected, rc, tmpDirs, jobs>>

BuildGraph ==
    /\ pc = "normalized"
    /\ \E flags \in SeqsUpTo(BOOLEAN, Len(clips)) :
          /\ audioFlags' = flags
          /\ filter' = buildFilterForConcat(clips, flags)
    /\ pc' = "built"
    /\ UNCHANGED <<req, bucket, videos, objects, scratch, clips, byId, idx,
                   inputPaths, probes, settleOrder, args, response, log, injected,
                   rc, tmpDirs, jobs>>

NextTimeline ==
    \/ Normalize
    \/ NormalizeThrows
    \/ Renormalize
    \/ BuildGraph

SpecTimeline == InitTimeline /\ [][NextTimeline]_vars

(***************************************************************************)
(* Properties of normTimeline (SpecTimeline).                              *)
(***************************************************************************)
Normalized == pc \in {"normalized", "renormalized", "built"}

\* the number a raw field is read as is finite, and it is n
ReadsAs(x, n) == x.k \in {"num", "undef"} /\ (IF x.k = "num" THEN x.v ELSE 0) = n

\* C12: whatever the raw timeline, the clips normTimeline returns are in
\* ascending order of start, each has out - in > 0, start >= 0 and a non-empty
\* source id, and each is an element of the input whose start, in and out are
\* finite numbers.
C12_NormalizedSortedAndValid ==
    Normalized =>
        /\ \A i \in 1..(Len(clips) - 1) : clips[i].start <= clips[i + 1].start
        /\ \A i \in 1..Len(clips) :
              /\ clips[i].out - clips[i].in > 0
              /\ clips[i].start >= 0
              /\ clips[i].videoId \notin {"", Undef}
              /\ \E j \in 1..Len(req.timeline.items) :
                    LET e == req.timeline.items[j]
                    IN  /\ ~e.isNull
                        /\ clips[i].videoId \in {e.videoId, e.id}
                        /\ ReadsAs(e.start, clips[i].start)
                        /\ ReadsAs(e.in, clips[i].in)
                        /\ ReadsAs(e.out, clips[i].out)

C12_Witness ==
    /\ pc = "normalized"
    /\ req.timeline.items =
          << Elem("A", Undef, Num(2), Num(0), Num(1)),
             Elem("A", Undef, NaN, Num(0), Num(1)),
             Elem("D", Undef, Num(1), Num(1), Num(2)) >>
    /\ clips = << [videoId |-> "D", start |-> 1, in |-> 1, out |-> 2],
                  [videoId |-> "A", start |-> 2, in |-> 0, out |-> 1] >>

\* C13: normalizing a normalized timeline again returns the same sequence of
\* clips, also when several clips have the same start.
C13_NormTimelineIdempotent ==
    [][(pc = "normalized" /\ pc' = "renormalized") => clips' = clips]_vars

C13_Witness ==
    /\ pc = "renormalized"
    /\ Len(clips) = 3
    /\ clips[1].start = clips[2].start
    /\ clips[1].videoId = "A" /\ clips[2].videoId = "B"

\* C14: an element whose videoId is the empty string and whose id is not empty,
\* with valid numbers, survives normalization with its id as source id.
C14_EmptyVideoIdFallsBackToId ==
    Normalized =>
        \A j \in 1..Len(req.timeline.items) :
            LET e == req.timeline.items[j]
            IN  ( /\ ~e.isNull
                  /\ e.videoId = "" /\ e.id \notin {"", Undef}
                  /\ e.start.k = "num" /\ e.in.k = "num" /\ e.out.k = "num"
                  /\ e.out.v > e.in.v /\ e.start.v >= 0 ) =>
                \E i \in 1..Len(clips) :
                    clips[i] = [videoId |-> e.id, start |-> e.start.v,
                                in |-> e.in.v, out |-> e.out.v]

\* C25: for every array passed as the timeline, null and undefined elements
\* included, the normalizer returns without raising.
C25_NormalizerNeverRaises == pc # "threw"

(***************************************************************************)
(* Properties of buildFilterForConcat (SpecTimeline).                      *)
(***************************************************************************)
\* the stages of graph g that define label l
Defining(g, l) == {k \in 1..Len(g) : g[k].stage # "concat" /\ g[k].label = l}

\* C15: for N clips the last stage is the concat stage: it declares n = N, v = 1,
\* a = 1 and the outputs [vout][aout], and lists the 2N labels [v0][a0][v1][a1]...
\* in that order; each label it lists is defined by exactly one stage, which
\* comes before it.
C15_ConcatStageShape ==
    pc = "built" =>
        LET N == Len(clips)
            last == filter[Len(filter)]
        IN  /\ Len(filter) = 2 * N + 1
            /\ last.stage = "concat"
            /\ last.n = N /\ last.v = 1 /\ last.a = 1
            /\ last.outs = <<Label("vout", 0), Label("aout", 0)>>
            /\ Len(last.inputs) = 2 * N
            /\ \A i \in 1..N :
                  /\ last.inputs[2 * i - 1] = [k |-> "v", i |-> i - 1]
                  /\ last.inputs[2 * i] = [k |-> "a", i |-> i - 1]
            /\ \A k \in 1..(2 * N) :
                  /\ Cardinality(Defining(filter, last.inputs[k])) = 1
                  /\ \A d \in Defining(filter, last.inputs[k]) : d < Len(filter)

C15_Witness ==
    /\ pc = "built"
    /\ Len(clips) = 3
    /\ filter[7].inputs =
          << Label("v", 0), Label("a", 0), Label("v", 1), Label("a", 1),
             Label("v", 2), Label("a", 2) >>

\* C16: for clip i the graph trims the video of input i from the clip's in for
\* out - in and labels it v{i}; it trims the audio of input i in the same way
\* into a{i} when audioFlags[i] is true, and otherwise generates silence a{i}
\* lasting clip i's own out - in.
C16_PerClipStages ==
    pc = "built" =>
        \A i \in 1..Len(clips) :
            LET c == clips[i]
                video == filter[2 * i - 1]
                audio == filter[2 * i]
            IN  /\ video.stage = "trim" /\ video.input = i - 1
                /\ video.start = c.in /\ video.duration = c.out - c.in
                /\ video.label = [k |-> "v", i |-> i - 1]
                /\ audio.label = [k |-> "a", i |-> i - 1]
                /\ audio.duration = c.out - c.in
                /\ IF i <= Len(audioFlags) /\ audioFlags[i]
                   THEN /\ audio.stage = "atrim" /\ audio.input = i - 1
                        /\ audio.start = c.in
                   ELSE audio.stage = "aevalsrc"

C16_Witness ==
    /\ pc = "built"
    /\ Len(clips) = 2
    /\ clips[1].in = 0 /\ clips[1].out = 2 /\ clips[2].in = 1 /\ clips[2].out = 2
    /\ audioFlags = <<TRUE, FALSE>>
    /\ filter[2].stage = "atrim" /\ filter[2].duration = 2
    /\ filter[4].stage = "aevalsrc" /\ filter[4].duration = 1

\* the clips with everything but their (in, out) pairs erased
InOutOnly(cs) ==
    [i \in 1..Len(cs) |->
        [videoId |-> "", start |-> 0, in |-> cs[i].in, out |-> cs[i].out]]

RECURSIVE SumOfDurations(_, _)
SumOfDurations(g, stage) ==
    IF g = <<>> THEN 0
    ELSE (IF Head(g).stage = stage THEN Head(g).duration ELSE 0)
         + SumOfDurations(Tail(g), stage)

RECURSIVE SumOfLengths(_)
SumOfLengths(cs) ==
    IF cs = <<>> THEN 0
    ELSE (Head(cs).out - Head(cs).in) + SumOfLengths(Tail(cs))

\* C17: the graph of a normalized timeline is the graph of its (in, out) pairs
\* alone, so two timelines with the same pairs and flags but different starts
\* have the same graph; and the durations of the video stages add up to the sum
\* of out - in over the clips.
C17_GraphIgnoresStart ==
    pc = "built" =>
        /\ filter = buildFilterForConcat(InOutOnly(clips), audioFlags)
        /\ SumOfDurations(filter, "trim") = SumOfLengths(clips)

C17_Witness ==
    /\ pc = "built"
    /\ Len(clips) = 2
    /\ clips[1].start = 1 /\ clips[2].start = 2
    /\ SumOfDurations(filter, "trim") = 2

(***************************************************************************)
(* tagsArr on its own: a tag string is turned into the stored tag list.    *)
(***************************************************************************)
MaxTagText == 4

TagAtoms == {",", " ", "Funny", "funny", "CATS", "cats"}

\* tag t1, t2, ...
NumberedTag(i) == "t" \o ToString(i)

\* entries joined with commas
RECURSIVE JoinComma(_)
JoinComma(entries) ==
    IF entries = <<>> THEN <<>>
    ELSE IF Len(entries) = 1 THEN <<entries[1]>>
    ELSE <<entries[1], ",">> \o JoinComma(Tail(entries))

\* long tag strings: t1 .. tn, as they are or after "t1" or "funny, Funny"
LongTagTexts ==
    {JoinComma(prefix \o [i \in 1..n |-> NumberedTag(i)]) :
        prefix \in {<<>>, <<"t1">>, <<"funny", "Funny">>},
        n \in (TagCap - 2)..(TagCap + 2)}

\* the tag string "Funny, funny , CATS,,cats"
ExampleTagText ==
    <<"Funny", ",", " ", "funny", " ", ",", " ", "CATS", ",", ",", "cats">>

TagInputs ==
    {NoTags}
    \cup {TagText(t) : t \in SeqsUpTo(TagAtoms, MaxTagText)}
    \cup {TagText(t) : t \in LongTagTexts \cup {ExampleTagText}}

\* visibility values a client may send
VisInputs ==
    {NoVis, NullVis}
    \cup {VisText(t) : t \in {<<>>, <<"public">>, <<"Public">>, <<"private">>,
                              <<"Private">>, <<"unlisted">>, <<"UNLISTED">>,
                              <<"hidden">>, <<" ", "private">>,
                              <<"private", "unlisted">>}}

InitTags ==
    /\ req \in [title : {<<"x">>}, tags : TagInputs, visibility : VisInputs]
    /\ bucket = TRUE
    /\ videos = {}
    /\ objects = {uploadKey}
    /\ pc = "insert"
    /\ scratch = "exists"
    /\ clips = <<>>
    /\ byId = <<>>
    /\ idx = 0
    /\ inputPaths = <<>>
    /\ probes = <<>>
    /\ settleOrder = <<>>
    /\ audioFlags = <<>>
    /\ filter = <<>>
    /\ args = NoArgs
    /\ response = NoResponse
    /\ log = <<>>
    /\ injected = {}
    /\ rc = IdleCall
    /\ tmpDirs = {}
    /\ jobs = <<>>

\* the row is inserted with the visibility and the tag list computed from the
\* request
InsertTags ==
    /\ pc = "insert"
    /\ videos' = videos \cup
          {[id |-> NewVideoId, filename |-> uploadKey,
            visibility |-> vis(req.visibility), tags |-> tagsArr(req.tags)]}
    /\ pc' = "inserted"
    /\ UNCHANGED <<req, bucket, objects, scratch, clips, byId, idx, inputPaths,
                   probes, settleOrder, audioFlags, filter, args, response, log,
                   injected, rc, tmpDirs, jobs>>

NextTags == InsertTags

SpecTags == InitTags /\ [][NextTags]_vars

(***************************************************************************)
(* Properties of the stored tag list (SpecTags).                           *)
(***************************************************************************)
\* the comma-separated pieces of the request's tag string, each trimmed and
\* lower-cased
Pieces ==
    LET raw == SplitComma(TagString(req.tags))
    IN  [p \in 1..Len(raw) |-> LowerText(Trim(raw[p]))]

\* the first of the pieces ps that is the tag t
FirstPiece(ps, t) ==
    CHOOSE p \in 1..Len(ps) : ps[p] = t /\ \A q \in 1..(p - 1) : ps[q] # t

\* C19: the stored tags are the trimmed, lower-cased, non-empty entries of the
\* comma-separated tag string, without duplicates and in the order of their
\* first occurrence: no tag is stored twice, each stored tag comes from an entry,
\* and every entry among the first TagCap non-empty ones is stored.
C19_TagsNormalizedAndDistinct ==
    \A row \in videos :
        LET stored == row.tags
            ps == Pieces
            nonBlank == {p \in 1..Len(ps) : ps[p] # <<>>}
            first == [i \in 1..Len(stored) |-> FirstPiece(ps, stored[i])]
        IN  /\ \A i, j \in 1..Len(stored) : i # j => stored[i] # stored[j]
            /\ \A i \in 1..Len(stored) :
                  /\ stored[i] # <<>>
                  /\ Head(stored[i]) # " " /\ stored[i][Len(stored[i])] # " "
                  /\ \A k \in 1..Len(stored[i]) :
                        stored[i][k] \notin {",", "Funny", "CATS"}
                  /\ \E p \in nonBlank : ps[p] = stored[i]
            /\ \A i, j \in 1..Len(stored) : i < j => first[i] < first[j]
            /\ \A p \in nonBlank :
                  Cardinality({q \in nonBlank : q <= p}) <= TagCap =>
                      \E i \in 1..Len(stored) : stored[i] = ps[p]

C19_Witness ==
    /\ pc = "inserted"
    /\ req.tags = TagText(ExampleTagText)
    /\ \E row \in videos : row.tags = << <<"funny">>, <<"cats">> >>

\* the distinct tags of the whole tag string, in order of first occurrence
AllUniqueTags == UniqueInOrder(SelectSeq(Pieces, NonEmptyEntry))

\* C20: a tag string with more than 30 distinct tags is stored as exactly its
\* first 30 distinct tags, also when duplicates occur among its first 30 entries.
C20_StoresFirstThirtyUnique ==
    \A row \in videos :
        Len(AllUniqueTags) > TagCap =>
            /\ Len(row.tags) = TagCap
            /\ row.tags = SubSeq(AllUniqueTags, 1, TagCap)

\* the one word of the request's visibility, "" when it is not a single word
VisWord ==
    IF req.visibility.k = "str" /\ Len(req.visibility.text) = 1
    THEN req.visibility.text[1] ELSE ""

\* C21: the stored visibility is always public, private or unlisted: the
\* lower-cased request value when that is one of the three, whatever its case,
\* and public for every other value and for a missing one.
C21_VisibilityAllowedOrPublic ==
    \A row \in videos :
        /\ row.visibility \in {<<"public">>, <<"private">>, <<"unlisted">>}
        /\ row.visibility =
              IF VisWord \in {"private", "Private"} THEN <<"private">>
              ELSE IF VisWord \in {"unlisted", "UNLISTED"} THEN <<"unlisted">>
              ELSE <<"public">>

C21_Witness ==
    /\ pc = "inserted"
    /\ req.visibility = VisText(<<"UNLISTED">>)
    /\ \E row \in videos : row.visibility = <<"unlisted">>

(***************************************************************************)
(* Properties of one runCmd call under any order of events                 *)
(* (SpecRunCmdAnyOrder).                                                   *)
(***************************************************************************)
\* the positions of the 'error' and 'close' events among evs
Settling(evs) == {k \in 1..Len(evs) : evs[k].type \in {"error", "close"}}

\* C28: a runCmd call has one outcome, that of the first 'error' or 'close'
\* event, whichever order they come in: a later event does not change it, and
\* the captured text is all the stdout/stderr data received before that event.
C28_SettledOnceByFirstEvent ==
    LET evs == rc.events
    IN  /\ rc.spawns = 1
        /\ Settling(evs) = {} => rc.promise = "pending"
        /\ Settling(evs) # {} =>
              LET k == Min(Settling(evs))
                  before == SubSeq(evs, 1, k - 1)
              IN  IF evs[k].type = "close" /\ evs[k].code = 0
                  THEN /\ rc.promise = "resolved"
                       /\ rc.valueOut = TextOf(before, "stdout")
                       /\ rc.valueErr = TextOf(before, "stderr")
                  ELSE /\ rc.promise = "rejected"
                       /\ rc.message =
                             IF evs[k].type = "error" THEN ErrorEv.d
                             ELSE IF TextOf(before, "stderr") # <<>>
                             THEN TextOf(before, "stderr")
                             ELSE <<rc.cmd, " exited with code ",
                                    ToString(evs[k].code)>>

C28_Witness ==
    /\ Len(rc.events) = 3
    /\ rc.events[1].type = "stdout"
    /\ rc.events[2] = CloseEv(0)
    /\ rc.events[3] = ErrorEv
    /\ rc.promise = "resolved" /\ rc.valueOut = rc.events[1].d

====
